---- MODULE Spec2Model ----
(***************************************************************************)
(* A model of matrix-lib: the strided N-dimensional array (NDArray) of     *)
(* src/utils/ndarray.rs, the rank-2 Matrix of src/utils/matrix.rs and the  *)
(* two conversions between them.                                           *)
(*                                                                         *)
(* One owned value is tracked at a time: `arr` (an NDArray) or `mat` (a    *)
(* Matrix).  `call` records the last call made on it: its name, its        *)
(* arguments and what it returned.  Indices are 0-based as in the source;  *)
(* TLA+ sequences are 1-based, so element k of a Vec is data[k + 1].       *)
(***************************************************************************)
EXTENDS Integers, Sequences, FiniteSets, TLC

VARIABLES arr, mat, call

vars == <<arr, mat, call>>

(***************************************************************************)
(* Bounds of the model.                                                    *)
(***************************************************************************)
\* the largest extent of one axis, and the largest index tried
MaxDim == 2
\* the largest number of elements of an array or matrix built by a fill constructor
MaxSize == 4
\* element values are 0..MaxVal (0 is T::default(), 1 is T::from(1))
MaxVal == 2

\* the rank a Matrix conversion requires (array.ndim() != 2)
MatrixRank == 2
\* shapes and index tuples of every rank up to one above the matrix rank
MaxRank == MatrixRank + 1

Val == 0..MaxVal

RECURSIVE SeqsUpTo(_, _)
SeqsUpTo(S, n) ==
    IF n = 0 THEN {<<>>}
    ELSE LET shorter == SeqsUpTo(S, n - 1)
         IN  shorter \cup {Append(s, x) : s \in {t \in shorter : Len(t) = n - 1}, x \in S}

\* shape arguments: every rank 0..MaxRank, every extent 0..MaxDim
ShapeInputs == SeqsUpTo(0..MaxDim, MaxRank)
\* index arguments: every arity 0..MaxRank, every index 0..MaxDim
IndexInputs == SeqsUpTo(0..MaxDim, MaxRank)
\* flat data arguments: every length 0..MaxSize
DataInputs == SeqsUpTo(Val, MaxSize)

\* rows arguments of Matrix::from_vec: up to MaxDim rows of 0..MaxDim values
\* each, ragged ones included, holding at most MaxSize values in all
RECURSIVE RowsWithin(_, _)
RowsWithin(n, budget) ==
    IF n = 0 THEN {<<>>}
    ELSE {<<>>} \cup
         UNION {{<<r>> \o rest : rest \in RowsWithin(n - 1, budget - Len(r))} :
                   r \in SeqsUpTo(Val, IF budget < MaxDim THEN budget ELSE MaxDim)}

RowsInputs == RowsWithin(MaxDim, MaxSize)

\* the other operand of + and *: every matrix of at most MaxDim rows and columns
\* and at most MaxSize values
MatrixInputs ==
    UNION {{[data |-> d, rows |-> r, cols |-> c] : d \in [1..r -> [1..c -> Val]]} :
              <<r, c>> \in {x \in (0..MaxDim) \X (0..MaxDim) : x[1] * x[2] <= MaxSize}}

(***************************************************************************)
(* Option and Result values.                                               *)
(***************************************************************************)
Nil == [tag |-> "Nil"]
None == [tag |-> "None"]
Some(x) == [tag |-> "Some", val |-> x]
Ok(x) == [tag |-> "Ok", val |-> x]
Err(e) == [tag |-> "Err", err |-> e]
Panic == [tag |-> "Panic"]
Unit == "()"

ShapeMismatch == "ShapeMismatch"
IndexOutOfBounds == "IndexOutOfBounds"
DimensionError == "DimensionError"

(***************************************************************************)
(* Helpers on sequences.                                                   *)
(***************************************************************************)
\* shape.iter().product()
RECURSIVE Product(_)
Product(s) == IF s = <<>> THEN 1 ELSE Head(s) * Product(Tail(s))

\* Vec::reverse
Reverse(s) == [i \in 1..Len(s) |-> s[Len(s) + 1 - i]]

\* vec![value; n]
Repeat(value, n) == [i \in 1..n |-> value]

\* Vec::get(idx) on a flat Vec, idx 0-based
VecGet(v, idx) == IF idx < Len(v) THEN Some(v[idx + 1]) ELSE None

Min(a, b) == IF a < b THEN a ELSE b

(***************************************************************************)
(* NDArray<T>: [data, shape, strides] (src/utils/ndarray.rs).              *)
(***************************************************************************)
NDArray(data, shape, strides) == [data |-> data, shape |-> shape, strides |-> strides]

\* the loop of calculate_strides over shape.iter().rev(): push, then multiply
RECURSIVE StridesLoop(_, _, _)
StridesLoop(rev, stride, strides) ==
    IF rev = <<>> THEN strides
    ELSE StridesLoop(Tail(rev), stride * Head(rev), Append(strides, stride))

\* a calculate_strides that forgets strides.reverse()
calculate_strides_unreversed(shape) == StridesLoop(Reverse(shape), 1, <<>>)

calculate_strides(shape) == Reverse(StridesLoop(Reverse(shape), 1, <<>>))

with_value(shape, value) ==
    NDArray(Repeat(value, Product(shape)), shape, calculate_strides(shape))

new(shape) == with_value(shape, 0)

zeros(shape) == with_value(shape, 0)

ones(shape) == with_value(shape, 1)

\* a from_vec that only rejects data that is too short
from_vec_accepts_longer(data, shape) ==
    IF Len(data) < Product(shape) THEN Err(ShapeMismatch)
    ELSE Ok(NDArray(data, shape, calculate_strides(shape)))

from_vec(data, shape) ==
    IF Len(data) # Product(shape) THEN Err(ShapeMismatch)
    ELSE Ok(NDArray(data, shape, calculate_strides(shape)))

ndim(a) == Len(a.shape)

size(a) == Len(a.data)

\* the loop of flat_index over indices.iter().zip(self.strides.iter()), i 0-based
RECURSIVE FlatIndexLoop(_, _, _, _)
FlatIndexLoop(a, indices, i, flat_idx) ==
    IF i >= Min(Len(indices), Len(a.strides)) THEN Some(flat_idx)
    ELSE IF indices[i + 1] >= a.shape[i + 1] THEN None
    ELSE FlatIndexLoop(a, indices, i + 1, flat_idx + indices[i + 1] * a.strides[i + 1])

\* a flat_index whose bounds test is idx > shape[i]
RECURSIVE FlatIndexLoopOffByOne(_, _, _, _)
FlatIndexLoopOffByOne(a, indices, i, flat_idx) ==
    IF i >= Min(Len(indices), Len(a.strides)) THEN Some(flat_idx)
    ELSE IF indices[i + 1] > a.shape[i + 1] THEN None
    ELSE FlatIndexLoopOffByOne(a, indices, i + 1, flat_idx + indices[i + 1] * a.strides[i + 1])

flat_index_off_by_one(a, indices) ==
    IF Len(indices) # Len(a.shape) THEN None
    ELSE FlatIndexLoopOffByOne(a, indices, 0, 0)

flat_index(a, indices) ==
    IF Len(indices) # Len(a.shape) THEN None
    ELSE FlatIndexLoop(a, indices, 0, 0)

\* self.flat_index(indices).and_then(|idx| self.data.get(idx))
get(a, indices) ==
    LET idx == flat_index(a, indices)
    IN  IF idx.tag = "None" THEN None ELSE VecGet(a.data, idx.val)

\* get_mut followed by a write through the returned reference:
\* [ret |-> whether a reference was returned, self |-> the array afterwards]
get_mut(a, indices, value) ==
    LET idx == flat_index(a, indices)
    IN  IF idx.tag = "None" \/ idx.val >= Len(a.data)
        THEN [ret |-> None, self |-> a]
        ELSE [ret |-> Some(Unit),
              self |-> [a EXCEPT !.data = [a.data EXCEPT ![idx.val + 1] = value]]]

\* a set that writes the first element whatever the indices
set_writes_first(a, indices, value) ==
    LET idx == flat_index(a, indices)
    IN  IF idx.tag = "None" THEN [ret |-> Err(IndexOutOfBounds), self |-> a]
        ELSE IF idx.val >= Len(a.data) THEN [ret |-> Panic, self |-> a]
        ELSE [ret |-> Ok(Unit),
              self |-> [a EXCEPT !.data = [a.data EXCEPT ![1] = value]]]

\* self.data[idx] = value panics when idx is past the end of data
\* [ret |-> the Result, self |-> the array afterwards]
set(a, indices, value) ==
    LET idx == flat_index(a, indices)
    IN  IF idx.tag = "None" THEN [ret |-> Err(IndexOutOfBounds), self |-> a]
        ELSE IF idx.val >= Len(a.data) THEN [ret |-> Panic, self |-> a]
        ELSE [ret |-> Ok(Unit),
              self |-> [a EXCEPT !.data = [a.data EXCEPT ![idx.val + 1] = value]]]

\* a reshape that rebuilds the data back to front
reshape_reversed(a, new_shape) ==
    IF Product(new_shape) # size(a) THEN Err(ShapeMismatch)
    ELSE Ok(NDArray(Reverse(a.data), new_shape, calculate_strides(new_shape)))

\* a reshape that only rejects a new shape that is too large
reshape_accepts_smaller(a, new_shape) ==
    IF Product(new_shape) > size(a) THEN Err(ShapeMismatch)
    ELSE Ok(NDArray(a.data, new_shape, calculate_strides(new_shape)))

reshape(a, new_shape) ==
    IF Product(new_shape) # size(a) THEN Err(ShapeMismatch)
    ELSE Ok(NDArray(a.data, new_shape, calculate_strides(new_shape)))

\* a call that returned x (no Result around it)
Ret(x) == [tag |-> "Ret", val |-> x]

\* Result::unwrap: the value, or a panic
Unwrap(r) == IF r.tag = "Ok" THEN Ret(r.val) ELSE Panic

\* a flatten that reshapes to a column instead of a vector
flatten_as_column(a) == Unwrap(reshape(a, <<size(a), 1>>))

flatten(a) == Unwrap(reshape(a, <<size(a)>>))

(***************************************************************************)
(* Matrix<T>: [data, rows, cols], data a Vec of rows                       *)
(* (src/utils/matrix.rs).                                                  *)
(***************************************************************************)
Matrix(data, rows, cols) == [data |-> data, rows |-> rows, cols |-> cols]

\* a Matrix::new that builds cols rows of rows elements
Matrix_new_swapped(rows, cols) == Matrix(Repeat(Repeat(0, rows), cols), rows, cols)

\* vec![vec![T::default(); cols]; rows]
Matrix_new(rows, cols) == Matrix(Repeat(Repeat(0, cols), rows), rows, cols)

\* a Matrix::from_vec without the loop that compares the row lengths
Matrix_from_vec_unchecked(data) ==
    IF data = <<>> THEN Err("Matrix cannot be empty")
    ELSE Ok(Matrix(data, Len(data), Len(data[1])))

Matrix_from_vec(data) ==
    IF data = <<>> THEN Err("Matrix cannot be empty")
    ELSE LET rows == Len(data)
             cols == Len(data[1])
         IN  IF \E r \in 1..rows : Len(data[r]) # cols
             THEN Err("All rows must have the same length")
             ELSE Ok(Matrix(data, rows, cols))

\* Index<(usize, usize)>: &self.data[index.0][index.1], which panics out of range
Matrix_index(m, r, c) ==
    IF r < Len(m.data) /\ c < Len(m.data[r + 1]) THEN Ret(m.data[r + 1][c + 1]) ELSE Panic

\* self.data.get(row)?.get(col)
Matrix_get(m, row, col) ==
    IF row < Len(m.data) THEN VecGet(m.data[row + 1], col) ELSE None

\* get_mut followed by a write through the returned reference:
\* [ret |-> whether a reference was returned, self |-> the matrix afterwards]
Matrix_get_mut(m, row, col, value) ==
    IF row < Len(m.data) /\ col < Len(m.data[row + 1])
    THEN [ret |-> Some(Unit),
          self |-> [m EXCEPT !.data[row + 1][col + 1] = value]]
    ELSE [ret |-> None, self |-> m]

\* a Matrix::set whose bounds test is row > self.rows || col > self.cols
Matrix_set_off_by_one(m, row, col, value) ==
    IF row > m.rows \/ col > m.cols
    THEN [ret |-> Err("Index out of bounds"), self |-> m]
    ELSE IF row >= Len(m.data) \/ col >= Len(m.data[row + 1])
    THEN [ret |-> Panic, self |-> m]
    ELSE [ret |-> Ok(Unit), self |-> [m EXCEPT !.data[row + 1][col + 1] = value]]

\* self.data[row][col] = value panics when the storage is smaller than rows x cols
\* [ret |-> the Result, self |-> the matrix afterwards]
Matrix_set(m, row, col, value) ==
    IF row >= m.rows \/ col >= m.cols
    THEN [ret |-> Err("Index out of bounds"), self |-> m]
    ELSE IF row >= Len(m.data) \/ col >= Len(m.data[row + 1])
    THEN [ret |-> Panic, self |-> m]
    ELSE [ret |-> Ok(Unit), self |-> [m EXCEPT !.data[row + 1][col + 1] = value]]

\* IndexMut<(usize, usize)> followed by a write: matrix[(r, c)] = value
Matrix_index_mut(m, r, c, value) ==
    IF r < Len(m.data) /\ c < Len(m.data[r + 1])
    THEN [ret |-> Ret(Unit), self |-> [m EXCEPT !.data[r + 1][c + 1] = value]]
    ELSE [ret |-> Panic, self |-> m]

\* the loop of identity: matrix.data[i][i] = T::from(1) for i in 0..upto
RECURSIVE IdentityLoop(_, _, _)
IdentityLoop(matrix, i, upto) ==
    IF i >= upto THEN matrix
    ELSE IdentityLoop([matrix EXCEPT !.data[i + 1][i + 1] = 1], i + 1, upto)

\* an identity whose loop stops one short of the last diagonal cell
Matrix_identity_one_short(n) ==
    IdentityLoop(Matrix_new(n, n), 0, n - 1)

Matrix_identity(n) ==
    IdentityLoop(Matrix_new(n, n), 0, n)

\* a transpose that swaps the dimensions but copies the rows as they are
Matrix_transpose_unswapped(m) ==
    Ret(Matrix([j \in 1..m.cols |-> [i \in 1..m.rows |->
                    IF i <= m.cols /\ j <= m.rows THEN m.data[j][i] ELSE 0]],
               m.cols, m.rows))

\* Matrix::new(self.cols, self.rows), then transposed.data[j][i] = self.data[i][j]
Matrix_transpose(m) ==
    IF \E i \in 0..(m.rows - 1), j \in 0..(m.cols - 1) : Matrix_index(m, i, j).tag = "Panic"
    THEN Panic
    ELSE LET transposed == Matrix_new(m.cols, m.rows)
         IN  Ret([transposed EXCEPT !.data =
                     [j \in 1..m.cols |-> [i \in 1..m.rows |-> m.data[i][j]]]])

\* an add that adds self to itself
Matrix_add_self_twice(a, b) ==
    IF a.rows # b.rows \/ a.cols # b.cols
    THEN Err("Matrices must have the same dimensions for addition")
    ELSE LET result == Matrix_new(a.rows, a.cols)
         IN  Ok([result EXCEPT !.data =
                    [i \in 1..a.rows |-> [j \in 1..a.cols |-> a.data[i][j] + a.data[i][j]]]])

\* impl Add for Matrix<T>
Matrix_add(a, b) ==
    IF a.rows # b.rows \/ a.cols # b.cols
    THEN Err("Matrices must have the same dimensions for addition")
    ELSE LET result == Matrix_new(a.rows, a.cols)
         IN  Ok([result EXCEPT !.data =
                    [i \in 1..a.rows |-> [j \in 1..a.cols |-> a.data[i][j] + b.data[i][j]]]])

\* the inner loop of mul: sum = sum + self.data[i][k] * other.data[k][j], i, j, k 1-based
RECURSIVE DotLoop(_, _, _, _, _, _)
DotLoop(a, b, i, j, k, sum) ==
    IF k > a.cols THEN sum
    ELSE DotLoop(a, b, i, j, k + 1, sum + a.data[i][k] * b.data[k][j])

\* the inner loop with sum = self.data[i][k] * other.data[k][j]: the sum is overwritten
RECURSIVE DotLoopOverwrite(_, _, _, _, _, _)
DotLoopOverwrite(a, b, i, j, k, sum) ==
    IF k > a.cols THEN sum
    ELSE DotLoopOverwrite(a, b, i, j, k + 1, a.data[i][k] * b.data[k][j])

Matrix_mul_overwrite(a, b) ==
    IF a.cols # b.rows
    THEN Err("Number of columns in first matrix must equal number of rows in second matrix")
    ELSE LET result == Matrix_new(a.rows, b.cols)
         IN  Ok([result EXCEPT !.data =
                    [i \in 1..a.rows |-> [j \in 1..b.cols |-> DotLoopOverwrite(a, b, i, j, 1, 0)]]])

\* impl Mul for Matrix<T>
Matrix_mul(a, b) ==
    IF a.cols # b.rows
    THEN Err("Number of columns in first matrix must equal number of rows in second matrix")
    ELSE LET result == Matrix_new(a.rows, b.cols)
         IN  Ok([result EXCEPT !.data =
                    [i \in 1..a.rows |-> [j \in 1..b.cols |-> DotLoop(a, b, i, j, 1, 0)]]])

(***************************************************************************)
(* The conversions (src/utils/ndarray.rs).                                 *)
(***************************************************************************)
\* the nested loops of From<Matrix>::from: push matrix[(r, c)] row by row
RECURSIVE FlattenRows(_, _)
FlattenRows(m, r) ==
    IF r >= m.rows THEN <<>>
    ELSE [c \in 1..m.cols |-> Matrix_index(m, r, c - 1).val] \o FlattenRows(m, r + 1)

\* a From<Matrix> whose loops run column by column
from_matrix_column_major(m) ==
    IF \E r \in 0..(m.rows - 1), c \in 0..(m.cols - 1) : Matrix_index(m, r, c).tag = "Panic"
    THEN Panic
    ELSE Unwrap(from_vec([k \in 1..(m.rows * m.cols) |->
                             m.data[((k - 1) % m.rows) + 1][((k - 1) \div m.rows) + 1]],
                         <<m.rows, m.cols>>))

\* impl From<Matrix<T>> for NDArray<T>
from_matrix(m) ==
    IF \E r \in 0..(m.rows - 1), c \in 0..(m.cols - 1) : Matrix_index(m, r, c).tag = "Panic"
    THEN Panic
    ELSE Unwrap(from_vec(FlattenRows(m, 0), <<m.rows, m.cols>>))

\* impl TryFrom<NDArray<T>> for Matrix<T>
try_from(a) ==
    IF ndim(a) # MatrixRank THEN Err(DimensionError)
    ELSE LET rows == a.shape[1]
             cols == a.shape[2]
         IN  IF \E r \in 0..(rows - 1), c \in 0..(cols - 1) : get(a, <<r, c>>).tag = "None"
             THEN Panic
             ELSE LET matrix_data ==
                          [r \in 1..rows |-> [c \in 1..cols |-> get(a, <<r - 1, c - 1>>).val]]
                      made == Matrix_from_vec(matrix_data)
                  IN  IF made.tag = "Ok" THEN made ELSE Err(ShapeMismatch)

(***************************************************************************)
(* PyNDArray::to_list (src/python_bindings.rs).                            *)
(***************************************************************************)
\* for i in 0..self.inner.size() { result.append(self.inner.get(&[i]).unwrap()) }
FlatList(a) ==
    IF \E i \in 0..(size(a) - 1) : get(a, <<i>>).tag = "None" THEN Panic
    ELSE Ret([i \in 1..size(a) |-> get(a, <<i - 1>>).val])

\* the rows and cols loops of the rank-2 branch
NestedList(a) ==
    LET rows == a.shape[1]
        cols == a.shape[2]
    IN  IF \E r \in 0..(rows - 1), c \in 0..(cols - 1) : get(a, <<r, c>>).tag = "None"
        THEN Panic
        ELSE Ret([r \in 1..rows |-> [c \in 1..cols |-> get(a, <<r - 1, c - 1>>).val]])

\* match self.inner.ndim() { 1 => ..., 2 => ..., _ => ... }
to_list(a) ==
    IF ndim(a) = 1 THEN FlatList(a)
    ELSE IF ndim(a) = 2 THEN NestedList(a)
    ELSE FlatList(a)

(***************************************************************************)
(* The state machine: one call per step.                                   *)
(***************************************************************************)
Init ==
    /\ arr = Nil
    /\ mat = Nil
    /\ call = [op |-> "idle"]

\* the last call's result has been consumed: the next call can be made
Idle == call.op = "idle"

\* nothing is owned: a value can be constructed
Empty == arr = Nil /\ mat = Nil /\ Idle

\* NDArray::new(&shape)
CallNew ==
    /\ Empty
    /\ \E s \in ShapeInputs :
        /\ Product(s) <= MaxSize
        /\ arr' = new(s)
        /\ call' = [op |-> "new", shape |-> s]
    /\ UNCHANGED mat

\* NDArray::with_value(&shape, value)
CallWithValue ==
    /\ Empty
    /\ \E s \in ShapeInputs, v \in Val :
        /\ Product(s) <= MaxSize
        /\ arr' = with_value(s, v)
        /\ call' = [op |-> "with_value", shape |-> s, value |-> v]
    /\ UNCHANGED mat

\* NDArray::zeros(&shape)
CallZeros ==
    /\ Empty
    /\ \E s \in ShapeInputs :
        /\ Product(s) <= MaxSize
        /\ arr' = zeros(s)
        /\ call' = [op |-> "zeros", shape |-> s]
    /\ UNCHANGED mat

\* NDArray::ones(&shape)
CallOnes ==
    /\ Empty
    /\ \E s \in ShapeInputs :
        /\ Product(s) <= MaxSize
        /\ arr' = ones(s)
        /\ call' = [op |-> "ones", shape |-> s]
    /\ UNCHANGED mat

\* NDArray::from_vec(data, &shape): on Err no array exists
CallFromVec ==
    /\ Empty
    /\ \E d \in DataInputs, s \in ShapeInputs :
        LET r == from_vec(d, s)
        IN  /\ arr' = IF r.tag = "Ok" THEN r.val ELSE Nil
            /\ call' = [op |-> "from_vec", data |-> d, shape |-> s, ret |-> r]
    /\ UNCHANGED mat

\* Matrix::new(rows, cols)
CallMatrixNew ==
    /\ Empty
    /\ \E rows \in 0..MaxDim, cols \in 0..MaxDim :
        /\ rows * cols <= MaxSize
        /\ mat' = Matrix_new(rows, cols)
        /\ call' = [op |-> "Matrix::new", rows |-> rows, cols |-> cols]
    /\ UNCHANGED arr

\* arr.get(&indices)
CallGet ==
    /\ Idle
    /\ arr # Nil
    /\ \E i \in IndexInputs :
        call' = [op |-> "get", indices |-> i, ret |-> get(arr, i)]
    /\ UNCHANGED <<arr, mat>>

\* arr.set(&indices, value)
CallSet ==
    /\ Idle
    /\ arr # Nil
    /\ \E i \in IndexInputs, v \in Val :
        LET r == set(arr, i, v)
        IN  /\ arr' = r.self
            /\ call' = [op |-> "set", indices |-> i, value |-> v, ret |-> r.ret]
    /\ UNCHANGED mat

\* if let Some(x) = arr.get_mut(&indices) { *x = value }
CallGetMut ==
    /\ Idle
    /\ arr # Nil
    /\ \E i \in IndexInputs, v \in Val :
        LET r == get_mut(arr, i, v)
        IN  /\ arr' = r.self
            /\ call' = [op |-> "get_mut", indices |-> i, value |-> v, ret |-> r.ret]
    /\ UNCHANGED mat

\* arr.reshape(&new_shape): &self, the new array is the return value
CallReshape ==
    /\ Idle
    /\ arr # Nil
    /\ \E s \in ShapeInputs :
        call' = [op |-> "reshape", new_shape |-> s, ret |-> reshape(arr, s)]
    /\ UNCHANGED <<arr, mat>>

\* arr.flatten(): &self, the new array is the return value
CallFlatten ==
    /\ Idle
    /\ arr # Nil
    /\ call' = [op |-> "flatten", ret |-> flatten(arr)]
    /\ UNCHANGED <<arr, mat>>

\* whether the last call returned a new array
ReturnedArray ==
    \/ call.op = "reshape" /\ call.ret.tag = "Ok"
    \/ call.op = "flatten" /\ call.ret.tag = "Ret"

\* the caller keeps the array a reshape or flatten returned and works on it
Bind ==
    /\ ReturnedArray
    /\ arr' = call.ret.val
    /\ call' = [op |-> "idle"]
    /\ UNCHANGED mat

\* NDArray::from(matrix): the matrix is moved into the call
CallFrom ==
    /\ Idle
    /\ mat # Nil
    /\ LET r == from_matrix(mat)
       IN  /\ arr' = IF r.tag = "Ret" THEN r.val ELSE Nil
           /\ call' = [op |-> "from", matrix |-> mat, ret |-> r]
    /\ mat' = Nil

\* Matrix::try_from(array): the array is moved into the call
CallTryFrom ==
    /\ Idle
    /\ arr # Nil
    /\ LET r == try_from(arr)
       IN  /\ mat' = IF r.tag = "Ok" THEN r.val ELSE Nil
           /\ call' = [op |-> "try_from", array |-> arr, ret |-> r]
    /\ arr' = Nil

\* Matrix::from_vec(data): on Err no matrix exists
CallMatrixFromVec ==
    /\ Empty
    /\ \E d \in RowsInputs :
        LET r == Matrix_from_vec(d)
        IN  /\ mat' = IF r.tag = "Ok" THEN r.val ELSE Nil
            /\ call' = [op |-> "Matrix::from_vec", data |-> d, ret |-> r]
    /\ UNCHANGED arr

\* Matrix::identity(size)
CallMatrixIdentity ==
    /\ Empty
    /\ \E n \in 0..MaxDim :
        /\ n * n <= MaxSize
        /\ mat' = Matrix_identity(n)
        /\ call' = [op |-> "identity", size |-> n]
    /\ UNCHANGED arr

\* mat.get(row, col)
CallMatrixGet ==
    /\ Idle
    /\ mat # Nil
    /\ \E row \in 0..MaxDim, col \in 0..MaxDim :
        call' = [op |-> "Matrix::get", row |-> row, col |-> col,
                 ret |-> Matrix_get(mat, row, col)]
    /\ UNCHANGED <<arr, mat>>

\* mat.set(row, col, value)
CallMatrixSet ==
    /\ Idle
    /\ mat # Nil
    /\ \E row \in 0..MaxDim, col \in 0..MaxDim, v \in Val :
        LET r == Matrix_set(mat, row, col, v)
        IN  /\ mat' = r.self
            /\ call' = [op |-> "Matrix::set", row |-> row, col |-> col, value |-> v,
                        ret |-> r.ret]
    /\ UNCHANGED arr

\* if let Some(x) = mat.get_mut(row, col) { *x = value }
CallMatrixGetMut ==
    /\ Idle
    /\ mat # Nil
    /\ \E row \in 0..MaxDim, col \in 0..MaxDim, v \in Val :
        LET r == Matrix_get_mut(mat, row, col, v)
        IN  /\ mat' = r.self
            /\ call' = [op |-> "Matrix::get_mut", row |-> row, col |-> col, value |-> v,
                        ret |-> r.ret]
    /\ UNCHANGED arr

\* mat[(row, col)] = value
CallMatrixIndexMut ==
    /\ Idle
    /\ mat # Nil
    /\ \E row \in 0..MaxDim, col \in 0..MaxDim, v \in Val :
        LET r == Matrix_index_mut(mat, row, col, v)
        IN  /\ mat' = r.self
            /\ call' = [op |-> "index_mut", row |-> row, col |-> col, value |-> v,
                        ret |-> r.ret]
    /\ UNCHANGED arr

\* mat.transpose(): &self, the new matrix is the return value
CallTranspose ==
    /\ Idle
    /\ mat # Nil
    /\ call' = [op |-> "transpose", ret |-> Matrix_transpose(mat)]
    /\ UNCHANGED <<arr, mat>>

\* mat + other: both operands are moved into the call
CallAdd ==
    /\ Idle
    /\ mat # Nil
    /\ \E other \in MatrixInputs :
        call' = [op |-> "add", self |-> mat, other |-> other, ret |-> Matrix_add(mat, other)]
    /\ mat' = Nil
    /\ UNCHANGED arr

\* mat * other: both operands are moved into the call
CallMul ==
    /\ Idle
    /\ mat # Nil
    /\ \E other \in MatrixInputs :
        call' = [op |-> "mul", self |-> mat, other |-> other, ret |-> Matrix_mul(mat, other)]
    /\ mat' = Nil
    /\ UNCHANGED arr

\* whether the last call returned a new matrix
ReturnedMatrix ==
    \/ call.op = "transpose" /\ call.ret.tag = "Ret"
    \/ call.op = "add" /\ call.ret.tag = "Ok"
    \/ call.op = "mul" /\ call.ret.tag = "Ok"

\* the caller keeps the matrix a transpose, + or * returned and works on it; the
\* model follows it only while it holds at most MaxSize elements, all within Val
BindMatrix ==
    /\ ReturnedMatrix
    /\ call.ret.val.rows * call.ret.val.cols <= MaxSize
    /\ \A i \in 1..Len(call.ret.val.data) :
           \A j \in 1..Len(call.ret.val.data[i]) : call.ret.val.data[i][j] \in Val
    /\ mat' = call.ret.val
    /\ call' = [op |-> "idle"]
    /\ UNCHANGED arr

\* PyNDArray::to_list on the array
CallToList ==
    /\ Idle
    /\ arr # Nil
    /\ call' = [op |-> "to_list", ret |-> to_list(arr)]
    /\ UNCHANGED <<arr, mat>>

\* the caller is done with what the last call returned
Return ==
    /\ ~Idle
    /\ call' = [op |-> "idle"]
    /\ UNCHANGED <<arr, mat>>

\* the owned value goes out of scope
Drop ==
    /\ Idle
    /\ ~Empty
    /\ arr' = Nil
    /\ mat' = Nil
    /\ UNCHANGED call

Next ==
    \/ CallNew
    \/ CallWithValue
    \/ CallZeros
    \/ CallOnes
    \/ CallFromVec
    \/ CallMatrixNew
    \/ CallGet
    \/ CallSet
    \/ CallGetMut
    \/ CallReshape
    \/ CallFlatten
    \/ Bind
    \/ Return
    \/ CallFrom
    \/ CallTryFrom
    \/ CallMatrixFromVec
    \/ CallMatrixIdentity
    \/ CallMatrixGet
    \/ CallMatrixSet
    \/ CallMatrixGetMut
    \/ CallMatrixIndexMut
    \/ CallTranspose
    \/ CallAdd
    \/ CallMul
    \/ BindMatrix
    \/ CallToList
    \/ Drop

Spec == Init /\ [][Next]_vars

(***************************************************************************)
(* What the claims speak of.                                               *)
(***************************************************************************)
\* data.len() == product(shape), and strides[i] == product(shape[i+1..])
WellFormed(a) ==
    /\ Len(a.data) = Product(a.shape)
    /\ Len(a.strides) = Len(a.shape)
    /\ \A i \in 1..Len(a.shape) :
           a.strides[i] = Product(SubSeq(a.shape, i + 1, Len(a.shape)))

\* indices.len() == ndim() and indices[i] < shape[i] on every axis
InBounds(a, indices) ==
    /\ Len(indices) = Len(a.shape)
    /\ \A i \in 1..Len(indices) : indices[i] < a.shape[i]

\* sum over the axes from k on of indices[i] * strides[i]
RECURSIVE OffsetFrom(_, _, _)
OffsetFrom(a, indices, k) ==
    IF k > Len(indices) THEN 0
    ELSE indices[k] * a.strides[k] + OffsetFrom(a, indices, k + 1)

Offset(a, indices) == OffsetFrom(a, indices, 1)

\* C1: every rank-2 array converts to a Matrix, and converting that Matrix back
\* gives an array equal to the one converted (shape, strides and data).
C1_ArrayMatrixArray ==
    (call.op = "try_from" /\ ndim(call.array) = 2) =>
        /\ call.ret.tag = "Ok"
        /\ from_matrix(call.ret.val).tag = "Ret"
        /\ from_matrix(call.ret.val).val = call.array

\* C2: every Matrix, the degenerate ones included, converts to an array that
\* converts back to a Matrix equal to it (rows, cols and elements).
C2_MatrixArrayMatrix ==
    call.op = "from" =>
        /\ call.ret.tag = "Ret"
        /\ try_from(call.ret.val).tag = "Ok"
        /\ try_from(call.ret.val).val = call.matrix

\* C3: when product(new_shape) == size(), the reshaped array, flattened, holds at
\* every flat position i the element the source, flattened, holds at i.
C3_ReshapePreservesFlatOrder ==
    (call.op = "reshape" /\ Product(call.new_shape) = size(arr)) =>
        /\ call.ret.tag = "Ok"
        /\ flatten(call.ret.val).tag = "Ret"
        /\ flatten(arr).tag = "Ret"
        /\ \A i \in 0..(size(arr) - 1) :
               /\ get(flatten(arr).val, <<i>>).tag = "Some"
               /\ get(flatten(call.ret.val).val, <<i>>) = get(flatten(arr).val, <<i>>)

C3_Witness ==
    /\ call.op = "reshape"
    /\ call.ret.tag = "Ok"
    /\ arr.shape = <<2, 2>>
    /\ call.new_shape = <<1, 2, 2>>
    /\ arr.data = <<1, 2, 0, 1>>

\* every array the program holds or has just been handed is well formed
ArraysWellFormed ==
    /\ arr # Nil => WellFormed(arr)
    /\ ReturnedArray => WellFormed(call.ret.val)
    /\ (call.op = "from_vec" /\ call.ret.tag = "Ok") => WellFormed(call.ret.val)
    /\ (call.op = "from" /\ call.ret.tag = "Ret") => WellFormed(call.ret.val)

\* C4: every reachable array has data.len() == product(shape), as many strides as
\* axes and strides[i] == product(shape[i+1..]) (shape [2,3,4]: strides [12,4,1]);
\* no step changes the strides of the array without changing its shape.
C4_ArrayInvariant ==
    /\ [](ArraysWellFormed /\ new(<<2, 3, 4>>).strides = <<12, 4, 1>>)
    /\ [][(arr # Nil /\ arr' # Nil /\ arr'.strides # arr.strides)
              => arr'.shape # arr.shape]_vars

C4_Witness ==
    /\ call.op = "set"
    /\ call.ret.tag = "Ok"
    /\ arr.shape = <<2, 1, 2>>
    /\ arr.strides = <<2, 2, 1>>
    /\ arr.data = <<0, 1, 2, 1>>

\* C5: from_vec returns Ok exactly when data.len() == product(shape) and
\* Err(ShapeMismatch) otherwise; on Ok the array has the given shape and exactly
\* the given data, in order.
C5_FromVec ==
    call.op = "from_vec" =>
        /\ call.ret.tag = "Ok" <=> Len(call.data) = Product(call.shape)
        /\ call.ret.tag # "Ok" =>
               /\ call.ret.tag = "Err"
               /\ call.ret.err = ShapeMismatch
               /\ arr = Nil
        /\ call.ret.tag = "Ok" =>
               /\ call.ret.val.shape = call.shape
               /\ call.ret.val.data = call.data
               /\ arr = call.ret.val

C5_Witness ==
    /\ call.op = "from_vec"
    /\ call.ret.tag = "Ok"
    /\ call.shape = <<2, 2>>
    /\ call.data = <<1, 2, 0, 1>>

\* C6: get returns Some exactly when the arity is ndim() and every index is below
\* its axis' extent, None otherwise; Some holds the element at flat offset
\* sum indices[i] * strides[i], which is below size().  Shape [2,3,4]: [1,2,3] is
\* offset 23, [2,0,0] is out of bounds.
C6_Get ==
    /\ call.op = "get" =>
           /\ call.ret.tag = "Some" <=> InBounds(arr, call.indices)
           /\ ~InBounds(arr, call.indices) => call.ret = None
           /\ InBounds(arr, call.indices) =>
                  /\ Offset(arr, call.indices) < size(arr)
                  /\ call.ret.val = arr.data[Offset(arr, call.indices) + 1]
    /\ flat_index(new(<<2, 3, 4>>), <<1, 2, 3>>) = Some(23)
    /\ flat_index(new(<<2, 3, 4>>), <<2, 0, 0>>) = None
    /\ get(new(<<2, 3, 4>>), <<2, 0, 0>>) = None

C6_Witness ==
    /\ call.op = "get"
    /\ arr.shape = <<2, 1, 2>>
    /\ arr.data = <<0, 1, 2, 1>>
    /\ call.indices = <<1, 0, 0>>
    /\ call.ret = Some(2)

\* C7: set with a wrong arity or an index out of bounds returns
\* Err(IndexOutOfBounds) and leaves the array as it was; otherwise it returns Ok,
\* get(indices) then returns the value, and every other get, the shape and the
\* strides are as before.
C7_Set ==
    [][call'.op = "set" =>
          /\ call'.ret.tag = "Ok" <=> InBounds(arr, call'.indices)
          /\ ~InBounds(arr, call'.indices) =>
                 /\ call'.ret.tag = "Err"
                 /\ call'.ret.err = IndexOutOfBounds
                 /\ arr' = arr
          /\ InBounds(arr, call'.indices) =>
                 /\ get(arr', call'.indices) = Some(call'.value)
                 /\ \A j \in IndexInputs \ {call'.indices} : get(arr', j) = get(arr, j)
                 /\ arr'.shape = arr.shape
                 /\ arr'.strides = arr.strides
                 /\ size(arr') = size(arr)]_vars

C7_Witness ==
    /\ call.op = "set"
    /\ call.ret.tag = "Ok"
    /\ call.indices = <<1, 0>>
    /\ call.value = 2
    /\ arr.shape = <<2, 2>>
    /\ arr.data = <<1, 1, 2, 1>>

\* C8: reshape returns Ok exactly when product(new_shape) == size() and
\* Err(ShapeMismatch) otherwise; on Ok the result has shape new_shape and the same
\* size; either way the source array is as it was.
C8_Reshape ==
    [][call'.op = "reshape" =>
          /\ arr' = arr
          /\ call'.ret.tag = "Ok" <=> Product(call'.new_shape) = size(arr)
          /\ call'.ret.tag # "Ok" =>
                 /\ call'.ret.tag = "Err"
                 /\ call'.ret.err = ShapeMismatch
          /\ call'.ret.tag = "Ok" =>
                 /\ call'.ret.val.shape = call'.new_shape
                 /\ size(call'.ret.val) = size(arr)]_vars

C8_Witness ==
    /\ call.op = "reshape"
    /\ call.ret.tag = "Ok"
    /\ arr.shape = <<2, 1, 2>>
    /\ call.new_shape = <<2, 2>>
    /\ call.ret.val.data = <<1, 2, 0, 1>>

\* C9: flatten never panics, for a zero-extent axis and the empty shape too; its
\* result is reshape([size()]), of rank 1 and length size(), and flattening it
\* again gives the same array.
C9_Flatten ==
    call.op = "flatten" =>
        /\ call.ret.tag = "Ret"
        /\ reshape(arr, <<size(arr)>>).tag = "Ok"
        /\ call.ret.val = reshape(arr, <<size(arr)>>).val
        /\ ndim(call.ret.val) = 1
        /\ call.ret.val.shape = <<size(arr)>>
        /\ size(call.ret.val) = size(arr)
        /\ call.ret.val.data = arr.data
        /\ flatten(call.ret.val).tag = "Ret"
        /\ flatten(call.ret.val).val = call.ret.val

C9_Witness ==
    /\ call.op = "flatten"
    /\ call.ret.tag = "Ret"
    /\ arr.shape = <<2, 0, 2>>
    /\ call.ret.val.shape = <<0>>

\* C10: the array -> matrix conversion succeeds for every array of rank 2 and
\* fails with DimensionError for every other rank; it returns no other error.
C10_TryFromRank ==
    call.op = "try_from" =>
        /\ ndim(call.array) = 2 => call.ret.tag = "Ok"
        /\ ndim(call.array) # 2 =>
               /\ call.ret.tag = "Err"
               /\ call.ret.err = DimensionError
        /\ call.ret.tag # "Ok" =>
               /\ call.ret.tag = "Err"
               /\ call.ret.err = DimensionError

\* C11: NDArray::from(M) never panics and gives shape [rows, cols] with
\* get([r, c]) == M[(r, c)]; when the array -> matrix conversion succeeds, the
\* matrix has rows == shape[0], cols == shape[1] and entry (r, c) == A.get([r, c]).
C11_ConversionsKeepPositions ==
    /\ call.op = "from" =>
           /\ call.ret.tag = "Ret"
           /\ call.ret.val.shape = <<call.matrix.rows, call.matrix.cols>>
           /\ \A r \in 0..(call.matrix.rows - 1), c \in 0..(call.matrix.cols - 1) :
                  /\ Matrix_index(call.matrix, r, c).tag = "Ret"
                  /\ get(call.ret.val, <<r, c>>) = Some(Matrix_index(call.matrix, r, c).val)
    /\ (call.op = "try_from" /\ call.ret.tag = "Ok") =>
           /\ call.ret.val.rows = call.array.shape[1]
           /\ call.ret.val.cols = call.array.shape[2]
           /\ \A r \in 0..(call.array.shape[1] - 1), c \in 0..(call.array.shape[2] - 1) :
                  /\ Matrix_index(call.ret.val, r, c).tag = "Ret"
                  /\ get(call.array, <<r, c>>) = Some(Matrix_index(call.ret.val, r, c).val)

C11_Witness ==
    /\ call.op = "from"
    /\ call.matrix.data = <<<<1, 2>>, <<0, 1>>>>
    /\ call.ret.tag = "Ret"
    /\ get(call.ret.val, <<0, 1>>) = Some(2)

\* the storage holds rows rows of cols elements each
MatrixWellFormed(m) ==
    /\ Len(m.data) = m.rows
    /\ \A r \in 1..Len(m.data) : Len(m.data[r]) = m.cols

\* C12: Matrix::from_vec returns an error exactly when there are no rows or some
\* row's length differs from the first row's; otherwise the matrix has as many
\* rows as the input, the first row's length as cols, and entry (r, c) == input[r][c].
C12_MatrixFromVec ==
    call.op = "Matrix::from_vec" =>
        LET d == call.data
            bad == d = <<>> \/ \E r \in 1..Len(d) : Len(d[r]) # Len(d[1])
        IN  /\ call.ret.tag = "Err" <=> bad
            /\ bad => mat = Nil
            /\ ~bad =>
                   /\ call.ret.tag = "Ok"
                   /\ mat = call.ret.val
                   /\ mat.rows = Len(d)
                   /\ mat.cols = Len(d[1])
                   /\ \A r \in 0..(Len(d) - 1), c \in 0..(Len(d[1]) - 1) :
                          Matrix_index(mat, r, c) = Ret(d[r + 1][c + 1])

C12_Witness ==
    /\ call.op = "Matrix::from_vec"
    /\ call.data = <<<<1, 2>>, <<0, 1>>>>
    /\ call.ret.tag = "Ok"
    /\ mat.rows = 2

\* C13: every matrix the program holds or has just been handed, after any sequence
\* of new, from_vec, identity, transpose, +, *, the array -> matrix conversion,
\* set, get_mut and index_mut, stores rows() rows of cols() elements each.
C13_MatrixInvariant ==
    /\ mat # Nil => MatrixWellFormed(mat)
    /\ ReturnedMatrix => MatrixWellFormed(call.ret.val)
    /\ (call.op \in {"Matrix::from_vec", "try_from"} /\ call.ret.tag = "Ok") =>
           MatrixWellFormed(call.ret.val)

C13_Witness ==
    /\ call.op = "mul"
    /\ call.ret.tag = "Ok"
    /\ call.self.rows = 2
    /\ call.self.cols = 1
    /\ call.other.cols = 2
    /\ call.ret.val.data = <<<<2, 4>>, <<1, 2>>>>

\* C14: Matrix::get returns Some exactly when row < rows and col < cols, None
\* otherwise; Matrix::set returns an error exactly when row >= rows or
\* col >= cols and then changes nothing; otherwise it returns Ok, get(row, col)
\* returns the value, and every other cell and the dimensions are as before.
C14_MatrixBounds ==
    [][/\ call'.op = "Matrix::get" =>
              /\ mat' = mat
              /\ call'.ret.tag = "Some" <=> (call'.row < mat.rows /\ call'.col < mat.cols)
              /\ (call'.row < mat.rows /\ call'.col < mat.cols) =>
                     call'.ret = Some(mat.data[call'.row + 1][call'.col + 1])
              /\ ~(call'.row < mat.rows /\ call'.col < mat.cols) => call'.ret = None
       /\ call'.op = "Matrix::set" =>
              /\ call'.ret.tag = "Err" <=> (call'.row >= mat.rows \/ call'.col >= mat.cols)
              /\ (call'.row >= mat.rows \/ call'.col >= mat.cols) => mat' = mat
              /\ (call'.row < mat.rows /\ call'.col < mat.cols) =>
                     /\ call'.ret.tag = "Ok"
                     /\ Matrix_get(mat', call'.row, call'.col) = Some(call'.value)
                     /\ \A r \in 0..MaxDim, c \in 0..MaxDim :
                            <<r, c>> # <<call'.row, call'.col>> =>
                                Matrix_get(mat', r, c) = Matrix_get(mat, r, c)
                     /\ mat'.rows = mat.rows
                     /\ mat'.cols = mat.cols
                     /\ MatrixWellFormed(mat')]_vars

C14_Witness ==
    /\ call.op = "Matrix::set"
    /\ call.ret.tag = "Ok"
    /\ call.row = 1
    /\ call.col = 0
    /\ call.value = 2
    /\ mat.data = <<<<1, 1>>, <<2, 1>>>>

\* C15: transpose succeeds for every matrix, zero rows or columns included; the
\* new matrix has rows == source.cols, cols == source.rows and
\* result[j][i] == source[i][j]; the source is as it was.
C15_Transpose ==
    [][call'.op = "transpose" =>
          /\ mat' = mat
          /\ call'.ret.tag = "Ret"
          /\ call'.ret.val.rows = mat.cols
          /\ call'.ret.val.cols = mat.rows
          /\ MatrixWellFormed(call'.ret.val)
          /\ \A i \in 0..(mat.rows - 1), j \in 0..(mat.cols - 1) :
                 Matrix_index(call'.ret.val, j, i) = Ret(mat.data[i + 1][j + 1])]_vars

C15_Witness ==
    /\ call.op = "transpose"
    /\ mat.data = <<<<1, 2>>>>
    /\ call.ret.tag = "Ret"
    /\ call.ret.val.data = <<<<1>>, <<2>>>>

\* C16: a + b returns an error exactly when the rows or the cols differ; otherwise
\* a matrix of the same dimensions with result[i][j] == a[i][j] + b[i][j]
\* ([[1,2],[3,4]] + [[5,6],[7,8]] == [[6,8],[10,12]]; 2x2 + 3x2 fails).
C16_Add ==
    /\ call.op = "add" =>
           LET a == call.self
               b == call.other
               differ == a.rows # b.rows \/ a.cols # b.cols
           IN  /\ call.ret.tag = "Err" <=> differ
               /\ ~differ =>
                      /\ call.ret.tag = "Ok"
                      /\ call.ret.val.rows = a.rows
                      /\ call.ret.val.cols = a.cols
                      /\ MatrixWellFormed(call.ret.val)
                      /\ \A i \in 1..a.rows, j \in 1..a.cols :
                             call.ret.val.data[i][j] = a.data[i][j] + b.data[i][j]
    /\ Matrix_add(Matrix(<<<<1, 2>>, <<3, 4>>>>, 2, 2), Matrix(<<<<5, 6>>, <<7, 8>>>>, 2, 2)).tag = "Ok"
    /\ Matrix_add(Matrix(<<<<1, 2>>, <<3, 4>>>>, 2, 2), Matrix(<<<<5, 6>>, <<7, 8>>>>, 2, 2)).val
           = Matrix(<<<<6, 8>>, <<10, 12>>>>, 2, 2)
    /\ Matrix_add(Matrix_new(2, 2), Matrix_new(3, 2)).tag = "Err"

C16_Witness ==
    /\ call.op = "add"
    /\ call.self.data = <<<<1, 2>>, <<0, 1>>>>
    /\ call.other.data = <<<<2, 0>>, <<1, 1>>>>
    /\ call.ret.tag = "Ok"
    /\ call.ret.val.data = <<<<3, 2>>, <<1, 2>>>>

\* the sum over k in 1..n of a[i][k] * b[k][j]
RECURSIVE DotProduct(_, _, _, _, _)
DotProduct(a, b, i, j, n) ==
    IF n = 0 THEN 0 ELSE DotProduct(a, b, i, j, n - 1) + a.data[i][n] * b.data[n][j]

\* C17: a * b returns an error exactly when a.cols != b.rows; otherwise a matrix
\* of a.rows rows and b.cols columns whose cell (i, j) is the sum over k < a.cols
\* of a[i][k] * b[k][j], starting from the default value
\* ([[1,2],[3,4]] * [[5,6],[7,8]] == [[19,22],[43,50]]; 2x3 * 2x2 fails).
C17_Mul ==
    /\ call.op = "mul" =>
           LET a == call.self
               b == call.other
           IN  /\ call.ret.tag = "Err" <=> a.cols # b.rows
               /\ a.cols = b.rows =>
                      /\ call.ret.tag = "Ok"
                      /\ call.ret.val.rows = a.rows
                      /\ call.ret.val.cols = b.cols
                      /\ MatrixWellFormed(call.ret.val)
                      /\ \A i \in 1..a.rows, j \in 1..b.cols :
                             call.ret.val.data[i][j] = DotProduct(a, b, i, j, a.cols)
    /\ Matrix_mul(Matrix(<<<<1, 2>>, <<3, 4>>>>, 2, 2), Matrix(<<<<5, 6>>, <<7, 8>>>>, 2, 2)).tag = "Ok"
    /\ Matrix_mul(Matrix(<<<<1, 2>>, <<3, 4>>>>, 2, 2), Matrix(<<<<5, 6>>, <<7, 8>>>>, 2, 2)).val
           = Matrix(<<<<19, 22>>, <<43, 50>>>>, 2, 2)
    /\ Matrix_mul(Matrix_new(2, 3), Matrix_new(2, 2)).tag = "Err"

C17_Witness ==
    /\ call.op = "mul"
    /\ call.self.data = <<<<1, 2>>, <<0, 1>>>>
    /\ call.other.data = <<<<2, 0>>, <<1, 1>>>>
    /\ call.ret.tag = "Ok"
    /\ call.ret.val.data = <<<<4, 2>>, <<1, 1>>>>

\* C18: identity(n) is an n x n matrix with 1 at (i, i) and 0 elsewhere, n == 0
\* and the 3 x 3 example included.
C18_Identity ==
    /\ call.op = "identity" =>
           /\ mat.rows = call.size
           /\ mat.cols = call.size
           /\ MatrixWellFormed(mat)
           /\ \A i \in 1..call.size, j \in 1..call.size :
                  mat.data[i][j] = IF i = j THEN 1 ELSE 0
    /\ Matrix_identity(3) = Matrix(<<<<1, 0, 0>>, <<0, 1, 0>>, <<0, 0, 1>>>>, 3, 3)
    /\ Matrix_identity(0) = Matrix(<<>>, 0, 0)

C18_Witness ==
    /\ call.op = "identity"
    /\ call.size = 2
    /\ mat.data = <<<<1, 0>>, <<0, 1>>>>

\* C19: PyNDArray::to_list never panics: rank 1 gives the flat list, rank 2 the
\* list of rows, and any other rank the size() elements in flat order.
C19_ToListNeverPanics ==
    call.op = "to_list" =>
        /\ call.ret.tag = "Ret"
        /\ ndim(arr) = 2 =>
               call.ret.val = [r \in 1..arr.shape[1] |->
                                  [c \in 1..arr.shape[2] |-> arr.data[(r - 1) * arr.shape[2] + c]]]
        /\ ndim(arr) # 2 => call.ret.val = arr.data

====
